---- MODULE Spec2Model ----
(***************************************************************************)
(* A model of custom_components/mycroft/__init__.py: the conversation      *)
(* agent OpenAIAgent and its turn handler async_process.                   *)
(*                                                                         *)
(* async_process is a coroutine.  It runs atomically between its await     *)
(* points (the user lookup, the completion call, the service-bus call), so *)
(* one action of the model is one such segment of one invocation, and      *)
(* several invocations interleave at those points.                         *)
(*                                                                         *)
(* Text is a sequence of lexemes.  Every punctuation character of a JSON   *)
(* text is a lexeme of its own, so the two-character suffix ",}" of a text *)
(* is exactly its two-lexeme suffix <<",", "}">>.  A string literal is the *)
(* lexeme Quote(w): the word w between double quotes.                      *)
(***************************************************************************)
EXTENDS Integers, Sequences, FiniteSets, TLC

VARIABLES
    history,          \* self.history: conversation id -> list of messages
    ulids,            \* how many identifiers ulid.ulid() has handed out
    pc,               \* per invocation: where the coroutine stands
    user_input,       \* per invocation: the ConversationInput received
    branch,           \* per invocation: which arm of the `if` at line 90 ran
    conversation_id,  \* per invocation: the local conversation_id
    messages,         \* per invocation: the local messages
    content,          \* per invocation: result["choices"][0]["message"]["content"]
    response,         \* per invocation: the local response
    comment,          \* per invocation: the local comment, as handed to async_set_speech
    request,          \* per invocation: the arguments given to openai.ChatCompletion.acreate
    calls,            \* per invocation: the calls made to hass.services.async_call, with how each ended
    outcome           \* per invocation: the ConversationResult returned, or the exception raised

vars == <<history, ulids, pc, user_input, branch, conversation_id, messages,
          content, response, comment, request, calls, outcome>>

(***************************************************************************)
(* Bounds                                                                  *)
(***************************************************************************)
MaxCalls == 2

\* The invocations of async_process a behaviour may hold.
Calls == 1..MaxCalls

\* One more where the replies are few (RaceSpec).
RaceCalls == 1..(MaxCalls + 1)

Texts == {"turn on the kitchen light", "is the light on?"}

(***************************************************************************)
(* Lexemes and JSON                                                        *)
(***************************************************************************)
Words == {"comment", "command", "domain", "service", "data", "entity_id",
          "ok", "none", "light", "switch", "turn_on", "turn_off",
          "light.kitchen", "switch.fan", "Ok!", "Got it!"}

Quote(w) == "\"" \o w \o "\""

StringLexemes == {Quote(w) : w \in Words}

IsStringLexeme(l) == l \in StringLexemes

UnquoteTable == [l \in StringLexemes |-> CHOOSE w \in Words : l = Quote(w)]

Unquote(l) == UnquoteTable[l]

JNull == [type |-> "null", val |-> "null"]

JStr(w) == [type |-> "str", val |-> w]

JDict(f) == [type |-> "dict", val |-> f]

JList(s) == [type |-> "list", val |-> s]

ParseFail == [ok |-> FALSE, val |-> JNull, next |-> 0]

ParseOk(v, n) == [ok |-> TRUE, val |-> v, next |-> n]

RECURSIVE ParseValue(_, _)
RECURSIVE ParsePairs(_, _, _)
RECURSIVE ParseElements(_, _, _)

\* One JSON value starting at lexeme i of t.
ParseValue(t, i) ==
    IF i > Len(t) THEN ParseFail
    ELSE IF t[i] = "null" THEN ParseOk(JNull, i + 1)
    ELSE IF IsStringLexeme(t[i]) THEN ParseOk(JStr(Unquote(t[i])), i + 1)
    ELSE IF t[i] = "{"
         THEN IF i + 1 <= Len(t) /\ t[i + 1] = "}"
              THEN ParseOk(JDict(<< >>), i + 2)
              ELSE ParsePairs(t, i + 1, << >>)
    ELSE IF t[i] = "["
         THEN IF i + 1 <= Len(t) /\ t[i + 1] = "]"
              THEN ParseOk(JList(<< >>), i + 2)
              ELSE ParseElements(t, i + 1, << >>)
    ELSE ParseFail

\* key : value pairs up to the closing brace; a later key overrides an earlier one.
ParsePairs(t, i, acc) ==
    IF i + 1 > Len(t) THEN ParseFail
    ELSE IF ~IsStringLexeme(t[i]) \/ t[i + 1] # ":" THEN ParseFail
    ELSE LET v == ParseValue(t, i + 2)
             acc2 == (Unquote(t[i]) :> v.val) @@ acc
         IN  IF ~v.ok THEN ParseFail
             ELSE IF v.next > Len(t) THEN ParseFail
             ELSE IF t[v.next] = "}" THEN ParseOk(JDict(acc2), v.next + 1)
             ELSE IF t[v.next] = "," THEN ParsePairs(t, v.next + 1, acc2)
             ELSE ParseFail

\* elements up to the closing bracket.
ParseElements(t, i, acc) ==
    LET v == ParseValue(t, i)
        acc2 == Append(acc, v.val)
    IN  IF ~v.ok THEN ParseFail
        ELSE IF v.next > Len(t) THEN ParseFail
        ELSE IF t[v.next] = "]" THEN ParseOk(JList(acc2), v.next + 1)
        ELSE IF t[v.next] = "," THEN ParseElements(t, v.next + 1, acc2)
        ELSE ParseFail

\* json.loads: the whole text must be one value.
JsonLoads(t) ==
    LET r == ParseValue(t, 1)
    IN  IF r.ok /\ r.next = Len(t) + 1
        THEN [ok |-> TRUE, val |-> r.val]
        ELSE [ok |-> FALSE, val |-> JNull]

(***************************************************************************)
(* The texts the completion service may answer with                        *)
(***************************************************************************)
CmdLight ==
    <<"{", Quote("domain"), ":", Quote("light"), ",",
           Quote("service"), ":", Quote("turn_on"), ",",
           Quote("data"), ":", "{", Quote("entity_id"), ":", Quote("light.kitchen"), "}", "}">>

CmdFan ==
    <<"{", Quote("domain"), ":", Quote("switch"), ",",
           Quote("service"), ":", Quote("turn_off"), ",",
           Quote("data"), ":", "{", Quote("entity_id"), ":", Quote("switch.fan"), "}", "}">>

CmdNoData ==
    <<"{", Quote("domain"), ":", Quote("light"), ",",
           Quote("service"), ":", Quote("turn_on"), "}">>

\* {"comment":"ok" <rest> }
WithComment(rest) == <<"{", Quote("comment"), ":", Quote("ok")>> \o rest \o <<"}">>

WithCommand(cmd) == WithComment(<<",", Quote("command"), ":">> \o cmd)

RawCommentOnly == WithComment(<< >>)

RawTrailingComma == WithComment(<<",">>)

RawCommandNull == WithCommand(<<"null">>)

RawCommandString == WithCommand(<<Quote("none")>>)

RawCommandDict == WithCommand(CmdLight)

RawCommandNoData == WithCommand(CmdNoData)

RawCommandList == WithCommand(<<"[">> \o CmdLight \o <<",">> \o CmdFan \o <<"]">>)

RawNoComment == <<"{", Quote("command"), ":", "null", "}">>

RawNoCommentTrailingComma == <<"{", Quote("command"), ":", "null", ",", "}">>

\* prose around the JSON
RawChatty == <<"Certainly! Here is the JSON: ">> \o RawCommentOnly

RawString == <<Quote("ok")>>

RawTexts ==
    {RawCommentOnly, RawTrailingComma, RawCommandNull, RawCommandString,
     RawCommandDict, RawCommandNoData, RawCommandList, RawNoComment,
     RawNoCommentTrailingComma, RawChatty, RawString}

(***************************************************************************)
(* Conversation identifiers                                                *)
(***************************************************************************)
None == <<"None", 0>>

Empty == <<"", 0>>

Ulid(n) == <<"ulid", n>>

Unbound == <<"unbound", 0>>

\* What a caller may supply: nothing, the empty string, or the identifier of an
\* earlier reply (a key of the history only if that turn was committed).
SuppliedIds ==
    {None, Empty} \cup
    {outcome[q].conversation_id : q \in {r \in RaceCalls : outcome[r].kind = "result"}}

(***************************************************************************)
(* async_process, lines 79-116: the messages of the turn                   *)
(***************************************************************************)
JsonSuffix == " Answer in syntactially perfect json and only json,"

new_message(text) == [role |-> "user", content |-> <<text, JsonSuffix>>]

system_prompt == <<"DEFAULT_PROMPT">>

home_info_prompt == <<"rendered HOME_INFO_TEMPLATE">>

AckOk == <<"{", Quote("comment"), ":", Quote("Ok!"), "}">>

AckGotIt == <<"{", Quote("comment"), ":", Quote("Got it!"), "}">>

SeedMessages(text) ==
    << [role |-> "user", content |-> system_prompt],
       [role |-> "assistant", content |-> AckOk],
       [role |-> "user", content |-> home_info_prompt],
       [role |-> "assistant", content |-> AckGotIt],
       new_message(text) >>

\* a continuing turn that starts over from the seed
ContinueMessagesReset(h, cid, text) == SeedMessages(text)

ContinueMessages(h, cid, text) == h[cid] \o <<new_message(text)>>

\* a new conversation that keeps the identifier it was given
SuppliedConversationId(supplied, n) == supplied

NewConversationId(supplied, n) == Ulid(n + 1)

(***************************************************************************)
(* async_process, lines 152-170: commit and parse                          *)
(***************************************************************************)
\* a commit made after the rewrite of line 159
CommitHistoryNormalized(h, cid, msgs, text) ==
    (cid :> (msgs \o <<[role |-> "assistant",
                        content |-> IF Len(text) >= 2 /\ SubSeq(text, Len(text) - 1, Len(text)) = <<",", "}">>
                                    THEN <<",", "}", "}">> ELSE text]>>)) @@ h

CommitHistory(h, cid, msgs, text) ==
    (cid :> (msgs \o <<[role |-> "assistant", content |-> text]>>)) @@ h

\* text[-2:]
LastTwo(text) ==
    IF Len(text) <= 2 THEN text ELSE SubSeq(text, Len(text) - 1, Len(text))

\* lines 158-159
Normalize(text) ==
    IF LastTwo(text) = <<",", "}">> THEN LastTwo(text) \o <<"}">> ELSE text

\* lines 161-162: json.loads(response) and response_json["comment"]
Decode(text) ==
    LET j == JsonLoads(text)
    IN  IF ~j.ok
        THEN [ok |-> FALSE, err |-> "JSONDecodeError", json |-> JNull, comment |-> JNull]
        ELSE IF j.val.type # "dict"
        THEN [ok |-> FALSE, err |-> "TypeError", json |-> j.val, comment |-> JNull]
        ELSE IF "comment" \notin DOMAIN j.val.val
        THEN [ok |-> FALSE, err |-> "KeyError", json |-> j.val, comment |-> JNull]
        ELSE [ok |-> TRUE, err |-> "", json |-> j.val, comment |-> j.val.val["comment"]]

\* Decode(Normalize(raw)) of every text the completion service may answer with,
\* computed once.
Decoded == [raw \in RawTexts |-> Decode(Normalize(raw))]

(***************************************************************************)
(* async_process, lines 172-198: dispatch                                  *)
(***************************************************************************)
\* a type test that lets a list through
IsDictOrListCommand(j) ==
    /\ "command" \in DOMAIN j.val
    /\ j.val["command"].type \in {"dict", "list"}

\* no type test at all
IsPresentCommand(j) == "command" \in DOMAIN j.val

\* lines 173-176
IsDictCommand(j) ==
    /\ "command" \in DOMAIN j.val
    /\ j.val["command"].type = "dict"

CommandKeys == {"domain", "service", "data"}

\* the three subscripts of lines 178-180 succeed: only a dict holding the
\* key can be subscripted by it
HasCallArgs(cmd) == cmd.type = "dict" /\ CommandKeys \subseteq DOMAIN cmd.val

\* domain and service in each other's place
CallArgsSwapped(cmd) ==
    [domain |-> cmd.val["service"], service |-> cmd.val["domain"], data |-> cmd.val["data"]]

\* lines 178-180
CallArgs(cmd) ==
    [domain |-> cmd.val["domain"], service |-> cmd.val["service"], data |-> cmd.val["data"]]

(***************************************************************************)
(* Replies                                                                 *)
(***************************************************************************)
NoOutcome == [kind |-> "none"]

Raised(exc) == [kind |-> "raised", exc |-> exc]

ConversationResult(rtype, speech, cid) ==
    [kind |-> "result", response_type |-> rtype, speech |-> speech, conversation_id |-> cid]

CommentSpeech(c) == [form |-> "value", value |-> c]

\* line 164
ParseErrorSpeech(text, err) ==
    [form |-> "text", text |-> <<"Unable to parse: ">> \o text \o <<" \n Error: ", err>>]

\* lines 183-185
ExecErrorSpeech(args, err) == [form |-> "exec", args |-> args, err |-> err]

\* line 145
OpenAIErrorSpeech == [form |-> "text", text |-> <<"Sorry, I had a problem talking to OpenAI: ", "OpenAIError">>]

NoText == <<"<unset>">>

NoRequest == [messages |-> << >>, user |-> Unbound]

\* lines 133-140
ChatCompletionRequest(msgs, cid) == [messages |-> msgs, user |-> cid]

ServiceCall(args) == [args |-> args, result |-> "pending"]

NoComment == [form |-> "unset"]

(***************************************************************************)
(* State                                                                   *)
(***************************************************************************)
Init ==
    /\ history = << >>
    /\ ulids = 0
    /\ pc = [p \in RaceCalls |-> "idle"]
    /\ user_input = [p \in RaceCalls |-> [text |-> "", conversation_id |-> None]]
    /\ branch = [p \in RaceCalls |-> "none"]
    /\ conversation_id = [p \in RaceCalls |-> Unbound]
    /\ messages = [p \in RaceCalls |-> << >>]
    /\ content = [p \in RaceCalls |-> NoText]
    /\ response = [p \in RaceCalls |-> NoText]
    /\ comment = [p \in RaceCalls |-> NoComment]
    /\ request = [p \in RaceCalls |-> NoRequest]
    /\ calls = [p \in RaceCalls |-> << >>]
    /\ outcome = [p \in RaceCalls |-> NoOutcome]

\* `return conversation.ConversationResult(response=..., conversation_id=conversation_id)`:
\* reading a local that was never assigned raises UnboundLocalError.
Return(rtype, speech, cid) ==
    IF cid = Unbound THEN Raised("UnboundLocalError")
    ELSE ConversationResult(rtype, speech, cid)

TemplateErrorSpeech ==
    [form |-> "text", text |-> <<"Sorry, I had a problem with my template: ", "TemplateError">>]

(***************************************************************************)
(* Lines 79-140: an utterance arrives; the segment runs to the first await *)
(* (the user lookup, awaited only for a truthy context.user_id, or else    *)
(* the completion call), or to the early return of the template error.     *)
(* Invocations are numbered in the order they arrive.                      *)
(***************************************************************************)
ReceiveFrom(p, texts) ==
    /\ pc[p] = "idle"
    /\ \A q \in RaceCalls : q < p => pc[q] # "idle"
    /\ \E text \in texts, cid \in SuppliedIds, has_user \in BOOLEAN, template_ok \in BOOLEAN :
        LET known == cid \in DOMAIN history
            msgs == IF known THEN ContinueMessages(history, cid, text) ELSE SeedMessages(text)
            id == IF known THEN cid ELSE NewConversationId(cid, ulids)
        IN  /\ user_input' = [user_input EXCEPT ![p] = [text |-> text, conversation_id |-> cid]]
            /\ IF known \/ template_ok
               THEN /\ branch' = [branch EXCEPT ![p] = IF known THEN "continuing" ELSE "new"]
                    /\ conversation_id' = [conversation_id EXCEPT ![p] = id]
                    /\ ulids' = IF known THEN ulids ELSE ulids + 1
                    /\ messages' = [messages EXCEPT ![p] = msgs]
                    /\ IF has_user
                       THEN /\ pc' = [pc EXCEPT ![p] = "await_user"]
                            /\ UNCHANGED request
                       ELSE /\ pc' = [pc EXCEPT ![p] = "await_completion"]
                            /\ request' = [request EXCEPT ![p] = ChatCompletionRequest(msgs, id)]
                    /\ UNCHANGED outcome
               ELSE \* lines 96-105
                    /\ branch' = [branch EXCEPT ![p] = "template_error"]
                    /\ outcome' = [outcome EXCEPT ![p] =
                                      Return("error", TemplateErrorSpeech, conversation_id[p])]
                    /\ pc' = [pc EXCEPT ![p] = "done"]
                    /\ UNCHANGED <<ulids, conversation_id, messages, request>>
    /\ UNCHANGED <<history, content, response, comment, calls>>

Receive(p) == ReceiveFrom(p, Texts)

(***************************************************************************)
(* Lines 122-140: hass.auth.async_get_user returns; the completion call is *)
(* made                                                                    *)
(***************************************************************************)
GetUserReturns(p) ==
    /\ pc[p] = "await_user"
    /\ pc' = [pc EXCEPT ![p] = "await_completion"]
    /\ request' = [request EXCEPT ![p] = ChatCompletionRequest(messages[p], conversation_id[p])]
    /\ UNCHANGED <<history, ulids, user_input, branch, conversation_id, messages,
                   content, response, comment, calls, outcome>>

(***************************************************************************)
(* Lines 141-149: openai.ChatCompletion.acreate raises OpenAIError         *)
(***************************************************************************)
CompletionFails(p) ==
    /\ pc[p] = "await_completion"
    /\ outcome' = [outcome EXCEPT ![p] = Return("error", OpenAIErrorSpeech, conversation_id[p])]
    /\ pc' = [pc EXCEPT ![p] = "done"]
    /\ UNCHANGED <<history, ulids, user_input, branch, conversation_id, messages,
                   content, response, comment, request, calls>>

(***************************************************************************)
(* Lines 151-181: the completion call returns raw text; the history is     *)
(* written, the text parsed, and the command (if a dict) dispatched up to  *)
(* the await of the service-bus call.                                      *)
(***************************************************************************)
CompletionReturnsFrom(p, raws) ==
    /\ pc[p] = "await_completion"
    /\ \E raw \in raws :
        LET text == Normalize(raw)
            d == Decoded[raw]
            cid == conversation_id[p]
        IN  /\ content' = [content EXCEPT ![p] = raw]
            /\ history' = CommitHistory(history, cid, messages[p], raw)
            /\ response' = [response EXCEPT ![p] = text]
            /\ IF ~d.ok
               THEN \* lines 163-170
                    /\ comment' = [comment EXCEPT ![p] = ParseErrorSpeech(text, d.err)]
                    /\ outcome' = [outcome EXCEPT ![p] =
                                      Return("speech", ParseErrorSpeech(text, d.err), cid)]
                    /\ pc' = [pc EXCEPT ![p] = "done"]
                    /\ UNCHANGED calls
               ELSE /\ comment' = [comment EXCEPT ![p] = CommentSpeech(d.comment)]
                    /\ IF IsDictCommand(d.json)
                       THEN IF HasCallArgs(d.json.val["command"])
                            THEN \* lines 177-181: the call is made and awaited
                                 /\ calls' = [calls EXCEPT ![p] =
                                                 Append(@, ServiceCall(CallArgs(d.json.val["command"])))]
                                 /\ pc' = [pc EXCEPT ![p] = "await_service"]
                                 /\ UNCHANGED outcome
                            ELSE \* the error of lines 178-180 is caught at line 182,
                                 \* and the f-string of lines 183-185 raises it again
                                 /\ outcome' = [outcome EXCEPT ![p] = Raised("KeyError")]
                                 /\ pc' = [pc EXCEPT ![p] = "done"]
                                 /\ UNCHANGED calls
                       ELSE \* lines 193-198
                            /\ outcome' = [outcome EXCEPT ![p] =
                                              Return("speech", CommentSpeech(d.comment), cid)]
                            /\ pc' = [pc EXCEPT ![p] = "done"]
                            /\ UNCHANGED calls
    /\ UNCHANGED <<ulids, user_input, branch, conversation_id, messages, request>>

CompletionReturns(p) == CompletionReturnsFrom(p, RawTexts)

response_json(p) == Decode(response[p]).json

(***************************************************************************)
(* Lines 193-198: the service-bus call returns                             *)
(***************************************************************************)
ServiceReturns(p) ==
    /\ pc[p] = "await_service"
    /\ calls' = [calls EXCEPT ![p][Len(calls[p])].result = "returned"]
    /\ outcome' = [outcome EXCEPT ![p] = Return("speech", comment[p], conversation_id[p])]
    /\ pc' = [pc EXCEPT ![p] = "done"]
    /\ UNCHANGED <<history, ulids, user_input, branch, conversation_id, messages,
                   content, response, comment, request>>

(***************************************************************************)
(* Lines 182-191: the service-bus call raises                              *)
(***************************************************************************)
ServiceRaises(p) ==
    /\ pc[p] = "await_service"
    /\ calls' = [calls EXCEPT ![p][Len(calls[p])].result = "raised"]
    /\ LET speech == ExecErrorSpeech(CallArgs(response_json(p).val["command"]), "ServiceError")
       IN  /\ comment' = [comment EXCEPT ![p] = speech]
           /\ outcome' = [outcome EXCEPT ![p] = Return("speech", speech, conversation_id[p])]
    /\ pc' = [pc EXCEPT ![p] = "done"]
    /\ UNCHANGED <<history, ulids, user_input, branch, conversation_id, messages,
                   content, response, request>>

Next ==
    \E p \in Calls :
        \/ Receive(p)
        \/ GetUserReturns(p)
        \/ CompletionFails(p)
        \/ CompletionReturns(p)
        \/ ServiceReturns(p)
        \/ ServiceRaises(p)

Spec == Init /\ [][Next]_vars

(***************************************************************************)
(* Utterances handled one after the other: an utterance arrives only when  *)
(* no invocation is in flight.                                             *)
(***************************************************************************)
Quiet == \A q \in RaceCalls : pc[q] \in {"idle", "done"}

ReceiveSeq(p) == Quiet /\ Receive(p)

NextSeq ==
    \E p \in Calls :
        \/ ReceiveSeq(p)
        \/ GetUserReturns(p)
        \/ CompletionFails(p)
        \/ CompletionReturns(p)
        \/ ServiceReturns(p)
        \/ ServiceRaises(p)

SeqSpec == Init /\ [][NextSeq]_vars

(***************************************************************************)
(* One invocation more, interleaved as in Spec, over the replies that     *)
(* carry no command.                                                       *)
(***************************************************************************)
RaceRawTexts == {RawCommentOnly, RawChatty}

CompletionReturnsRace(p) == CompletionReturnsFrom(p, RaceRawTexts)

NextRace ==
    \E p \in RaceCalls :
        \/ Receive(p)
        \/ GetUserReturns(p)
        \/ CompletionFails(p)
        \/ CompletionReturnsRace(p)

RaceSpec == Init /\ [][NextRace]_vars

(***************************************************************************)
(* Properties                                                              *)
(***************************************************************************)
\* the completion call of invocation p was made / has returned text
Called(p) == request[p] # NoRequest

Completed(p) == content[p] # NoText

\* the JSON reading of each raw text, as received
Json == [raw \in RawTexts |-> JsonLoads(raw)]

HasKey(j, k) == j.type = "dict" /\ k \in DOMAIN j.val

HasComment(raw) == Json[raw].ok /\ HasKey(Json[raw].val, "comment")

CommentOf(raw) == Json[raw].val.val["comment"]

HasCommand(raw) == HasComment(raw) /\ HasKey(Json[raw].val, "command")

CommandOf(raw) == Json[raw].val.val["command"]

EndsWithCommaBrace(t) == Len(t) >= 2 /\ t[Len(t) - 1] = "," /\ t[Len(t)] = "}"

\* the text with the comma before its final brace removed
CommaRemoved(t) == SubSeq(t, 1, Len(t) - 2) \o <<"}">>

RepairedJson ==
    [raw \in RawTexts |-> JsonLoads(IF EndsWithCommaBrace(raw) THEN CommaRemoved(raw) ELSE raw)]

IsSubtext(sub, t) ==
    \E i \in 0..(Len(t) - Len(sub)) : SubSeq(t, i + 1, i + Len(sub)) = sub

IsPrefix(s, t) == Len(s) <= Len(t) /\ SubSeq(t, 1, Len(s)) = s

LastCall(p) == calls[p][Len(calls[p])]

(***************************************************************************)
(* C1: a raw text that ends in ",}" and is valid JSON with a "comment"     *)
(* once that comma is removed is decoded as repaired, and the reply's      *)
(* speech is that comment.                                                 *)
(***************************************************************************)
C1_TrailingCommaRepaired ==
    \A p \in RaceCalls :
        ( /\ pc[p] = "done"
          /\ Completed(p)
          /\ EndsWithCommaBrace(content[p])
          /\ RepairedJson[content[p]].ok
          /\ HasKey(RepairedJson[content[p]].val, "comment")
          /\ ~HasKey(RepairedJson[content[p]].val, "command") )
        => /\ outcome[p].kind = "result"
           /\ outcome[p].speech = CommentSpeech(RepairedJson[content[p]].val.val["comment"])

(***************************************************************************)
(* C2: for a raw text that is not valid JSON or has no "comment", nothing  *)
(* is raised, the reply's speech contains the whole raw text, and no       *)
(* service call is made.                                                   *)
(***************************************************************************)
C2_FallbackEmbedsRawText ==
    \A p \in RaceCalls :
        (Completed(p) /\ ~HasComment(content[p]))
        => /\ pc[p] = "done"
           /\ outcome[p].kind = "result"
           /\ outcome[p].speech.form = "text"
           /\ IsSubtext(content[p], outcome[p].speech.text)
           /\ calls[p] = << >>

HasListCommand(raw) == HasCommand(raw) /\ CommandOf(raw).type = "list"

C4_AlwaysOneResult ==
    \A p \in RaceCalls :
        pc[p] = "done"
        => /\ outcome[p].kind = "result"
           /\ outcome[p].conversation_id # Unbound

\* q is the next utterance, after p, made under the conversation id of p's turn
Consecutive(p, q) ==
    /\ p < q
    /\ Called(p)
    /\ Called(q)
    /\ user_input[q].conversation_id = request[p].user
    /\ ~\E r \in RaceCalls : p < r /\ r < q /\ Called(r) /\ request[r].user = request[p].user

UserTurn(q) == [role |-> "user", content |-> <<user_input[q].text, JsonSuffix>>]

ExtendsFirst(p, q) ==
    /\ IsPrefix(request[p].messages, request[q].messages)
    /\ Len(request[q].messages) > Len(request[p].messages)
    /\ request[q].messages[Len(request[q].messages)] = UserTurn(q)

\* C5 is checked under SeqSpec: utterances handled one after the other.
\* C5, as claimed: whatever the outcome of the first turn, the messages of the
\* second call start with all the messages of the first call, are strictly
\* longer and end with the new user turn.
C5_SecondExtendsFirst ==
    \A p, q \in RaceCalls : Consecutive(p, q) => ExtendsFirst(p, q)

\* C5, amended: when the first turn's completion call returned and the second
\* utterance carries the conversation id of the first turn's reply, the
\* messages of the second call are those of the first call, then the
\* assistant turn holding the first reply's raw text, then the new user turn.
C5_SecondExtendsCommittedFirst ==
    \A p, q \in RaceCalls :
        (Consecutive(p, q) /\ Completed(p))
        => /\ ExtendsFirst(p, q)
           /\ request[q].messages =
                  request[p].messages
                      \o <<[role |-> "assistant", content |-> content[p]]>>
                      \o <<UserTurn(q)>>

\* C5, witness: two consecutive turns of one conversation, both answered.
C5_TwoTurnsSeen ==
    \E p, q \in RaceCalls :
        Consecutive(p, q) /\ Completed(p) /\ Completed(q)

\* the two acknowledgements, as the source writes them
AckTexts ==
    << <<"{", "\"comment\"", ":", "\"Ok!\"", "}">>,
       <<"{", "\"comment\"", ":", "\"Got it!\"", "}">> >>

IsSeed(msgs, p) ==
    /\ Len(msgs) = 5
    /\ msgs[1] = [role |-> "user", content |-> <<"DEFAULT_PROMPT">>]
    /\ msgs[2] = [role |-> "assistant", content |-> AckTexts[1]]
    /\ msgs[3] = [role |-> "user", content |-> <<"rendered HOME_INFO_TEMPLATE">>]
    /\ msgs[4] = [role |-> "assistant", content |-> AckTexts[2]]
    /\ msgs[5] = UserTurn(p)

(***************************************************************************)
(* C6: an utterance whose conversation id is not a key of the history, the *)
(* template rendering succeeding, gets a fresh identifier that differs     *)
(* from the supplied one and is the completion call's user tag and the     *)
(* reply's conversation id, and its five messages are: system prompt,      *)
(* acknowledgement, rendered home info, acknowledgement, the user turn.    *)
(***************************************************************************)
C6_NewConversationSeeded ==
    \A p \in RaceCalls :
        branch[p] = "new"
        => /\ conversation_id[p] # user_input[p].conversation_id
           /\ conversation_id[p] \notin {None, Empty, Unbound}
           /\ \A q \in RaceCalls :
                  q < p => /\ user_input[q].conversation_id # conversation_id[p]
                           /\ conversation_id[q] # conversation_id[p]
           /\ IsSeed(messages[p], p)
           /\ Called(p) => /\ request[p].user = conversation_id[p]
                           /\ IsSeed(request[p].messages, p)
           /\ outcome[p].kind = "result"
                  => outcome[p].conversation_id = conversation_id[p]

\* C6, witness: new conversations from the empty id and from a replied id that was never stored.
C6_NewConversationSeen ==
    \E p, q \in RaceCalls :
        /\ p < q
        /\ branch[p] = "new" /\ user_input[p].conversation_id = Empty
        /\ branch[q] = "new" /\ user_input[q].conversation_id = conversation_id[p]
        /\ outcome[q].kind = "result"

HasDictCommand(raw) ==
    /\ HasCommand(raw)
    /\ CommandOf(raw).type = "dict"
    /\ {"domain", "service", "data"} \subseteq DOMAIN CommandOf(raw).val

(***************************************************************************)
(* C7: a command that is one object with domain, service and data gets     *)
(* exactly one service-bus call, with exactly those three values, and if   *)
(* the call succeeds the reply's speech is the original comment.           *)
(***************************************************************************)
C7_SingleCommandOneCall ==
    \A p \in RaceCalls :
        (Completed(p) /\ HasDictCommand(content[p]))
        => /\ Len(calls[p]) = 1
           /\ calls[p][1].args.domain = CommandOf(content[p]).val["domain"]
           /\ calls[p][1].args.service = CommandOf(content[p]).val["service"]
           /\ calls[p][1].args.data = CommandOf(content[p]).val["data"]
           /\ calls[p][1].result = "returned"
                  => /\ pc[p] = "done"
                     /\ outcome[p].kind = "result"
                     /\ outcome[p].speech = [form |-> "value", value |-> CommentOf(content[p])]

\* C7, witness: a single-object command whose call returned.
C7_SingleCommandSeen ==
    \E p \in RaceCalls :
        /\ Completed(p) /\ HasDictCommand(content[p])
        /\ pc[p] = "done"
        /\ calls[p][1].result = "returned"

HasNoCallableCommand(raw) ==
    /\ HasComment(raw)
    /\ HasKey(Json[raw].val, "command") => CommandOf(raw).type \in {"null", "str"}

(***************************************************************************)
(* C8: a reply with a comment whose command is absent, null or a string    *)
(* gets no service-bus call, raises nothing, and is spoken as the comment. *)
(***************************************************************************)
C8_NoCommandNoCall ==
    \A p \in RaceCalls :
        (Completed(p) /\ HasNoCallableCommand(content[p]))
        => /\ calls[p] = << >>
           /\ pc[p] = "done"
           /\ outcome[p].kind = "result"
           /\ outcome[p].response_type = "speech"
           /\ outcome[p].speech = [form |-> "value", value |-> CommentOf(content[p])]

\* C8, witness: turns with a null command and with a string command have ended.
C8_NoCommandSeen ==
    \E p, q \in RaceCalls :
        /\ pc[p] = "done" /\ content[p] = RawCommandNull
        /\ pc[q] = "done" /\ content[q] = RawCommandString

(***************************************************************************)
(* C9 (RaceSpec): every write of the history map replaces a stored list by *)
(* an extension of it, and no key is dropped.                              *)
(***************************************************************************)
C9_HistoryOnlyExtended ==
    [][\A id \in DOMAIN history :
           /\ id \in DOMAIN history'
           /\ IsPrefix(history[id], history'[id])]_vars

Returning(p) == content[p] = NoText /\ content'[p] # NoText

(***************************************************************************)
(* C10: the history map changes in exactly the steps in which a completion *)
(* call returns, and then the conversation's entry becomes the messages    *)
(* sent plus one assistant turn holding the raw reply text as received,    *)
(* whether or not the parse or the dispatch of that same step fails.       *)
(***************************************************************************)
C10_CommittedIffCompletionReturned ==
    [][ /\ (\A p \in RaceCalls : ~Returning(p)) => history' = history
        /\ \A p \in RaceCalls :
               Returning(p)
               => /\ DOMAIN history' = DOMAIN history \cup {request[p].user}
                  /\ history'[request[p].user] =
                         request[p].messages
                             \o <<[role |-> "assistant", content |-> content'[p]]>>
                  /\ \A id \in DOMAIN history \ {request[p].user} :
                         history'[id] = history[id] ]_vars

\* C10, witness: an unparsable reply was committed, and a failed completion call left no entry.
C10_CommittedThoughUnparsed ==
    \E p, q \in RaceCalls :
        /\ pc[p] = "done" /\ Completed(p) /\ EndsWithCommaBrace(content[p])
        /\ history[request[p].user] =
               request[p].messages \o <<[role |-> "assistant", content |-> content[p]]>>
        /\ pc[q] = "done" /\ Called(q) /\ ~Completed(q)
        /\ request[q].user \notin DOMAIN history

====
